---- MODULE Spec2Model ----
(***************************************************************************)
(* A model of get_frame_number.py: the interactive prompts, the checks     *)
(* that precede the extraction, and the extraction loop of main().         *)
(*                                                                         *)
(* Floating point.  Every Python float of the program (interval,           *)
(* duration_sec, current_time, the millisecond product) is modelled as a   *)
(* binary floating-point number with round-to-nearest-even, as IEEE 754    *)
(* binary64 is, scaled down to a significand of MantissaBits bits.  A      *)
(* finite non-negative float is held as an integer count of ticks of       *)
(* 1/TicksPerSecond seconds that has at most MantissaBits significant      *)
(* bits; FRound rounds an exact result to that format.  NaN is held as a   *)
(* value no finite float of the model takes.                               *)
(***************************************************************************)
EXTENDS Integers, Sequences, FiniteSets, TLC

VARIABLES
    pc,              \* the statement of main() that runs next
    video,           \* the metadata the decoder reports for the openable file
    dirs,            \* the directories that exist in the file system
    input_path,      \* main: input_path
    out_dir,         \* main: out_dir
    interval_str,    \* main: interval_str
    interval,        \* main: interval
    cap,             \* the decoder handle: "none", "failed", "opened", "released"
    duration_sec,    \* main: duration_sec
    expected_frames, \* main: expected_frames (NoTotal for None)
    pbar,            \* the progress bar's count of updates
    saved,           \* main: saved
    current_time,    \* main: current_time
    ret,             \* main: ret of the last cap.read()
    seeks,           \* the positions given to cap.set(CAP_PROP_POS_MSEC, ..), in order
    written,         \* the file names given to cv2.imwrite, in order
    message,         \* the last message the process printed
    summary,         \* the frame count of the printed summary (NoTotal: none printed)
    exitCode         \* the exit code of the process (NoExit while it runs)

vars == <<pc, video, dirs, input_path, out_dir, interval_str, interval, cap,
          duration_sec, expected_frames, pbar, saved, current_time, ret,
          seeks, written, message, summary, exitCode>>

(***************************************************************************)
(* Bounds of the model.                                                    *)
(***************************************************************************)
\* Significand width of the model's floats (53 in binary64).
MantissaBits == 17
\* The loop is followed for at most this many seeks.
MaxFrames == 40

\* The resolution of the model's floats: ticks per second.
TicksPerSecond == 2^14

NaN == 0 - 2^30
NoTotal == 0 - 1
NoExit == 0 - 1

(***************************************************************************)
(* Floating-point arithmetic on non-negative finite values and NaN.        *)
(***************************************************************************)
RECURSIVE Ulp(_)
\* The spacing of the floats around n: the least power of two u with
\* n < 2^MantissaBits * u.
Ulp(n) == IF n < 2^MantissaBits THEN 1 ELSE 2 * Ulp(n \div 2)

\* Round-half-to-even of num/den to an integer (den > 0, num >= 0).
RoundHalfEven(num, den) ==
    LET q == num \div den
        r == num % den
    IN  IF 2 * r < den THEN q
        ELSE IF 2 * r > den THEN q + 1
        ELSE IF q % 2 = 0 THEN q ELSE q + 1

\* The exact value n rounded to a float: round-to-nearest, ties to even.
FRound(n) == LET u == Ulp(n) IN u * RoundHalfEven(n, u)

IsNaN(x) == x = NaN

\* float + float
FAdd(a, b) == IF IsNaN(a) \/ IsNaN(b) THEN NaN ELSE FRound(a + b)

\* float > float (False when either is NaN)
FGreater(a, b) == ~IsNaN(a) /\ ~IsNaN(b) /\ a > b

\* float <= 0 (False for NaN)
FLessEqZero(a) == ~IsNaN(a) /\ a <= 0

(***************************************************************************)
(* The inputs.                                                             *)
(***************************************************************************)
\* Paths typed at the first prompt: a playable video, a file that is not a
\* video, and a path that names no file.
InputPaths == {"video.mp4", "notes.txt", "missing.mp4"}
ExistingFiles == {"video.mp4", "notes.txt"}
\* A check that accepts every path that was typed.
IsFile_anyPath(p) == p # ""

\* os.path.isfile(input_path)
IsFile(p) == p \in ExistingFiles
Openable(p) == p = "video.mp4"

\* What is typed at the second prompt: a directory that exists, one that does
\* not, and nothing (ask() returns the empty string).
OutDirs == {"frames", "new_frames", ""}
ExistingDirs == {"frames"}

Seconds(n) == n * TicksPerSecond

\* What is typed at the third prompt, as float() sees it: text that is no
\* number, "nan", or a number (its value in ticks, already a float).
IntervalStrings ==
    {[kind |-> "text", val |-> 0], [kind |-> "nan", val |-> 0]}
    \cup {[kind |-> "num", val |-> v] :
            v \in {0 - Seconds(2), 0,
                   4, 16, 17, 25, 1000,
                   Seconds(1) \div 2, Seconds(1) - 6, Seconds(2),
                   43691, Seconds(3599) + Seconds(1) \div 2}}

\* The metadata of video.mp4: frame rate (Hz) and frame count.
Videos ==
    {[fps |-> 0, frames |-> 10], [fps |-> 1, frames |-> 0],
     [fps |-> 1, frames |-> 1],  [fps |-> 2, frames |-> 1],
     [fps |-> 1, frames |-> 8],  [fps |-> 1, frames |-> 10],
     [fps |-> 1, frames |-> 7200]}

(***************************************************************************)
(* File names.                                                             *)
(***************************************************************************)
RECURSIVE DecDigits(_)
\* The decimal digits of n >= 0, most significant first.
DecDigits(n) == IF n < 10 THEN <<n>> ELSE Append(DecDigits(n \div 10), n % 10)

RECURSIVE ZeroPad(_, _)
\* Python's {n:0wd}: at least w digits, padded with zeros on the left.
ZeroPad(ds, w) == IF Len(ds) >= w THEN ds ELSE ZeroPad(<<0>> \o ds, w)

FormatD(n, w) == ZeroPad(DecDigits(n), w)

\* hh = int(current_time // 3600)
Hours(t) == t \div Seconds(3600)
\* mm = int((current_time % 3600) // 60)
Minutes(t) == (t % Seconds(3600)) \div Seconds(60)
\* ss = int(current_time % 60)
SecondsField(t) == (t % Seconds(60)) \div Seconds(1)
\* The remainder scaled by 100 instead of 1000.
MsInt_centis(t) == RoundHalfEven(FRound((t % Seconds(1)) * 100), TicksPerSecond)

\* ms_int = int(round((current_time - int(current_time)) * 1000))
MsInt(t) == RoundHalfEven(FRound((t % Seconds(1)) * 1000), TicksPerSecond)

\* f"frame_{hh:02d}_{mm:02d}_{ss:02d}.{ms_int:03d}.png": the four digit
\* strings between the fixed separators.
FileName(t) ==
    <<FormatD(Hours(t), 2), FormatD(Minutes(t), 2),
      FormatD(SecondsField(t), 2), FormatD(MsInt(t), 3)>>

(***************************************************************************)
(* main()                                                                  *)
(***************************************************************************)
\* interval_str before the third prompt is answered
NotEntered == [kind |-> "none", val |-> 0]

\* float(interval_str) raises ValueError
ParseFails(s) == s.kind = "text"
\* float(interval_str)
ParseFloat(s) == IF s.kind = "nan" THEN NaN ELSE s.val

\* interval < 0: zero is let through.
IntervalRejected_strict(x) == ~IsNaN(x) /\ x < 0

\* interval <= 0 (line 38)
IntervalRejected(x) == FLessEqZero(x)

\* duration_sec = total_frames / fps if fps > 0 else 0
Duration(total_frames, fps) ==
    IF fps > 0 THEN FRound((total_frames * TicksPerSecond) \div fps) ELSE 0

\* int(duration_sec // interval) + 1 if duration_sec > 0 else None
ExpectedFrames(d, i) ==
    IF d > 0 THEN (d \div i) + 1 ELSE NoTotal

\* The comparison with its operands swapped.
PastEnd_swapped(t, d) == FGreater(d, t)

\* current_time > duration_sec (line 85)
PastEnd(t, d) == FGreater(t, d)

Init ==
    /\ pc = "ask_input_path"
    /\ video \in Videos
    /\ dirs = ExistingDirs
    /\ input_path = ""
    /\ out_dir = ""
    /\ interval_str = NotEntered
    /\ interval = 0
    /\ cap = "none"
    /\ duration_sec = 0
    /\ expected_frames = NoTotal
    /\ pbar = 0
    /\ saved = 0
    /\ current_time = 0
    /\ ret = FALSE
    /\ seeks = <<>>
    /\ written = <<>>
    /\ message = ""
    /\ summary = NoTotal
    /\ exitCode = NoExit

\* raise SystemExit(msg): the message is printed and the process exits with 1.
SystemExit(msg) ==
    /\ pc' = "aborted"
    /\ message' = msg
    /\ exitCode' = 1

\* An exception no handler catches: traceback, exit code 1.
Uncaught(what) ==
    /\ pc' = "crashed"
    /\ message' = what
    /\ exitCode' = 1

\* ask("Enter input video path: ")
AskInputPath ==
    /\ pc = "ask_input_path"
    /\ \/ /\ \E p \in InputPaths : input_path' = p
          /\ pc' = "ask_out_dir"
          /\ UNCHANGED <<message, exitCode>>
       \/ /\ SystemExit("No input provided. Exiting.")
          /\ UNCHANGED input_path
    /\ UNCHANGED <<video, dirs, out_dir, interval_str, interval, cap,
                   duration_sec, expected_frames, pbar, saved, current_time,
                   ret, seeks, written, summary>>

\* ask("Enter output directory: ")
AskOutDir ==
    /\ pc = "ask_out_dir"
    /\ \/ /\ \E d \in OutDirs : out_dir' = d
          /\ pc' = "ask_interval"
          /\ UNCHANGED <<message, exitCode>>
       \/ /\ SystemExit("No input provided. Exiting.")
          /\ UNCHANGED out_dir
    /\ UNCHANGED <<video, dirs, input_path, interval_str, interval, cap,
                   duration_sec, expected_frames, pbar, saved, current_time,
                   ret, seeks, written, summary>>

\* ask("Enter time interval between frames (in seconds): ")
AskInterval ==
    /\ pc = "ask_interval"
    /\ \/ /\ \E s \in IntervalStrings : interval_str' = s
          /\ pc' = "parse_interval"
          /\ UNCHANGED <<message, exitCode>>
       \/ /\ SystemExit("No input provided. Exiting.")
          /\ UNCHANGED interval_str
    /\ UNCHANGED <<video, dirs, input_path, out_dir, interval, cap,
                   duration_sec, expected_frames, pbar, saved, current_time,
                   ret, seeks, written, summary>>

\* lines 36-41
ValidateInterval ==
    /\ pc = "parse_interval"
    /\ IF ParseFails(interval_str) \/ IntervalRejected(ParseFloat(interval_str))
       THEN /\ SystemExit("Invalid interval. Please enter a positive number.")
            /\ UNCHANGED interval
       ELSE /\ interval' = ParseFloat(interval_str)
            /\ pc' = "check_input"
            /\ UNCHANGED <<message, exitCode>>
    /\ UNCHANGED <<video, dirs, input_path, out_dir, interval_str, cap,
                   duration_sec, expected_frames, pbar, saved, current_time,
                   ret, seeks, written, summary>>

\* lines 43-44
CheckInputFile ==
    /\ pc = "check_input"
    /\ IF ~IsFile(input_path)
       THEN SystemExit("Error: input file not found.")
       ELSE /\ pc' = "makedirs"
            /\ UNCHANGED <<message, exitCode>>
    /\ UNCHANGED <<video, dirs, input_path, out_dir, interval_str, interval,
                   cap, duration_sec, expected_frames, pbar, saved,
                   current_time, ret, seeks, written, summary>>

\* line 46: os.makedirs(out_dir, exist_ok=True); of the empty path it raises
\* FileNotFoundError.
MakeDirs ==
    /\ pc = "makedirs"
    /\ IF out_dir = ""
       THEN /\ Uncaught("FileNotFoundError")
            /\ UNCHANGED dirs
       ELSE /\ dirs' = dirs \cup {out_dir}
            /\ pc' = "open"
            /\ UNCHANGED <<message, exitCode>>
    /\ UNCHANGED <<video, input_path, out_dir, interval_str, interval, cap,
                   duration_sec, expected_frames, pbar, saved, current_time,
                   ret, seeks, written, summary>>

\* The open taken to succeed for every file.
IsOpened_unchecked(p) == TRUE

\* cap.isOpened() after cv2.VideoCapture(input_path)
IsOpened(p) == Openable(p)

\* lines 48-50
OpenVideo ==
    /\ pc = "open"
    /\ IF ~IsOpened(input_path)
       THEN /\ cap' = "failed"
            /\ SystemExit("Cannot open input video.")
       ELSE /\ cap' = "opened"
            /\ pc' = "metadata"
            /\ UNCHANGED <<message, exitCode>>
    /\ UNCHANGED <<video, dirs, input_path, out_dir, interval_str, interval,
                   duration_sec, expected_frames, pbar, saved, current_time,
                   ret, seeks, written, summary>>

\* lines 52-61.  With a NaN interval and a positive duration, line 57 takes
\* int() of NaN and raises ValueError.
ReadMetadata ==
    /\ pc = "metadata"
    /\ duration_sec' = Duration(video.frames, video.fps)
    /\ IF duration_sec' > 0 /\ IsNaN(interval)
       THEN /\ Uncaught("ValueError: cannot convert float NaN to integer")
            /\ UNCHANGED <<expected_frames, pbar, saved, current_time>>
       ELSE /\ expected_frames' = ExpectedFrames(duration_sec', interval)
            /\ pbar' = 0
            /\ saved' = 0
            /\ current_time' = 0
            /\ pc' = "seek"
            /\ UNCHANGED <<message, exitCode>>
    /\ UNCHANGED <<video, dirs, input_path, out_dir, interval_str, interval,
                   cap, ret, seeks, written, summary>>

\* The loop going on to the write after a failed read.
AfterRead_noBreak(r) == "write"

\* lines 67-68: if not ret: break
AfterRead(r) == IF r THEN "write" ELSE "finish"

\* lines 65-68: seek to current_time, read one frame, break when there is none
SeekRead ==
    /\ pc = "seek"
    /\ Len(seeks) < MaxFrames
    /\ seeks' = Append(seeks, current_time)
    /\ \E r \in BOOLEAN :
          /\ ret' = r
          /\ pc' = AfterRead(r)
    /\ UNCHANGED <<video, dirs, input_path, out_dir, interval_str, interval,
                   cap, duration_sec, expected_frames, pbar, saved,
                   current_time, written, message, summary, exitCode>>

\* lines 70-82: name the frame, write it, count it.  int() of a NaN clock
\* raises ValueError (line 71); an exception raised under cv2.imwrite (or an
\* interrupt delivered there) is caught by nothing.  The return value of
\* cv2.imwrite is not looked at: the frame counts as saved.
WriteFrame ==
    /\ pc = "write"
    /\ \/ /\ IsNaN(current_time)
          /\ Uncaught("ValueError: cannot convert float NaN to integer")
          /\ UNCHANGED <<written, saved, pbar>>
       \/ /\ ~IsNaN(current_time)
          /\ written' = Append(written, FileName(current_time))
          /\ saved' = saved + 1
          /\ pbar' = pbar + 1
          /\ pc' = "advance"
          /\ UNCHANGED <<message, exitCode>>
       \/ /\ ~IsNaN(current_time)
          /\ Uncaught("exception raised while writing the frame")
          /\ UNCHANGED <<written, saved, pbar>>
    /\ UNCHANGED <<video, dirs, input_path, out_dir, interval_str, interval,
                   cap, duration_sec, expected_frames, current_time, ret,
                   seeks, summary>>

\* lines 84-86
Advance ==
    /\ pc = "advance"
    /\ current_time' = FAdd(current_time, interval)
    /\ pc' = IF PastEnd(current_time', duration_sec) THEN "finish" ELSE "seek"
    /\ UNCHANGED <<video, dirs, input_path, out_dir, interval_str, interval,
                   cap, duration_sec, expected_frames, pbar, saved, ret,
                   seeks, written, message, summary, exitCode>>

\* lines 88-90
Finish ==
    /\ pc = "finish"
    /\ cap' = "released"
    /\ message' = "Saved frames"
    /\ summary' = saved
    /\ exitCode' = 0
    /\ pc' = "done"
    /\ UNCHANGED <<video, dirs, input_path, out_dir, interval_str, interval,
                   duration_sec, expected_frames, pbar, saved, current_time,
                   ret, seeks, written>>

Next ==
    \/ AskInputPath
    \/ AskOutDir
    \/ AskInterval
    \/ ValidateInterval
    \/ CheckInputFile
    \/ MakeDirs
    \/ OpenVideo
    \/ ReadMetadata
    \/ SeekRead
    \/ WriteFrame
    \/ Advance
    \/ Finish

Spec == Init /\ [][Next]_vars

(***************************************************************************)
(* Notions the properties are stated with.                                 *)
(***************************************************************************)
Range(s) == {s[i] : i \in DOMAIN s}

Terminal == pc \in {"done", "aborted", "crashed"}

\* The third prompt was answered with something float() rejects or with a
\* number <= 0.
InvalidIntervalEntered ==
    \/ interval_str.kind = "text"
    \/ interval_str.kind = "num" /\ interval_str.val <= 0

\* The third prompt was answered with a number > 0 or with "nan", which
\* float() parses and which is not <= 0.
ValidIntervalEntered ==
    \/ interval_str.kind = "nan"
    \/ interval_str.kind = "num" /\ interval_str.val > 0

\* The third prompt was answered with a number > 0.
PositiveInterval == interval_str.kind = "num" /\ interval_str.val > 0

\* The statements from the loop's initialisation on.
InOrAfterLoop == pc \in {"seek", "write", "advance", "finish", "done"}

\* interval >= 0.001 s
OneMsOrMore(i) == i >= (TicksPerSecond + 999) \div 1000

RECURSIVE DigitsValue(_)
\* The number a string of decimal digits denotes.
DigitsValue(ds) ==
    IF ds = <<>> THEN 0
    ELSE 10 * DigitsValue(SubSeq(ds, 1, Len(ds) - 1)) + ds[Len(ds)]

\* The timestamp a file name encodes, in milliseconds.
EncodedMs(name) ==
    (DigitsValue(name[1]) * 3600 + DigitsValue(name[2]) * 60
        + DigitsValue(name[3])) * 1000 + DigitsValue(name[4])

\* e milliseconds is the clock value t rounded to the nearest millisecond
\* (either neighbour on a tie).
NearestMs(e, t) ==
    LET rem == e - (t \div TicksPerSecond) * 1000
        d == rem * TicksPerSecond - (t % TicksPerSecond) * 1000
    IN  rem >= 0 /\ 2 * d <= TicksPerSecond /\ 0 - 2 * d <= TicksPerSecond

\* frame_00_00_00.000.png
ZeroName == << <<0, 0>>, <<0, 0>>, <<0, 0>>, <<0, 0, 0>> >>

(***************************************************************************)
(* The properties.                                                         *)
(***************************************************************************)

\* C1: in a completed run with interval > 0 in which every read decoded a
\* frame, the summary's count, saved and the number of distinct files written
\* all equal floor(duration / interval) + 1.
C1_FileCount ==
    (pc = "done" /\ ret /\ PositiveInterval) =>
        /\ saved = (duration_sec \div interval) + 1
        /\ summary = saved
        /\ Cardinality(Range(written)) = saved

C4_MissingFileAlwaysNotFound ==
    (Terminal /\ interval_str # NotEntered /\ ~(input_path \in ExistingFiles)) =>
        /\ pc = "aborted"
        /\ message = "Error: input file not found."
        /\ dirs = ExistingDirs
        /\ cap = "none"

\* C4 (amended): when all three prompts were answered, the interval is
\* accepted and the input path names no existing file, the process is about
\* to check the path or has aborted with exit code 1 and the file-not-found
\* message; no directory is created and the decoder is never opened.
C4_MissingFileAfterValidInterval ==
    (ValidIntervalEntered /\ pc # "parse_interval"
        /\ ~(input_path \in ExistingFiles)) =>
        /\ \/ pc = "check_input"
           \/ /\ pc = "aborted"
              /\ exitCode = 1
              /\ message = "Error: input file not found."
        /\ dirs = ExistingDirs
        /\ cap = "none"
        /\ seeks = <<>>
        /\ written = <<>>

\* C4 witness: the file-not-found abort with an output directory that does
\* not exist.
C4_Witness ==
    /\ pc = "aborted"
    /\ message = "Error: input file not found."
    /\ input_path = "missing.mp4"
    /\ out_dir = "new_frames"

\* C5: no terminal state has the decoder handle opened and not released.
C5_HandleReleased == Terminal => cap # "opened"

\* C6: after a failed read the loop has stopped: no file was written for the
\* failed timestamp, every earlier seek has its file, saved counts those
\* files, and the process ends with the summary of that count and exit code 0.
C6_DecodeFailureIsNormalEnd ==
    (Len(seeks) > 0 /\ ~ret) =>
        /\ pc \in {"finish", "done"}
        /\ Len(written) = Len(seeks) - 1
        /\ saved = Len(written)
        /\ pc = "done" => /\ exitCode = 0
                          /\ message = "Saved frames"
                          /\ summary = saved
                          /\ cap = "released"

\* C6 witness: a run that ended on a failed read after two frames were saved.
C6_Witness == pc = "done" /\ ~ret /\ saved = 2 /\ Len(seeks) = 3

\* C7: with interval > duration at most one seek is made, at timestamp 0, and
\* the loop is not entered again; the completed run made exactly that one
\* seek and saved frame_00_00_00.000.png if the read decoded a frame, nothing
\* otherwise.
C7_IntervalBeyondDuration ==
    (PositiveInterval /\ (InOrAfterLoop \/ pc = "crashed")
        /\ interval > duration_sec) =>
        /\ Len(seeks) <= 1
        /\ \A k \in DOMAIN seeks : seeks[k] = 0
        /\ pc = "seek" => seeks = <<>>
        /\ pc = "done" =>
              /\ Len(seeks) = 1
              /\ saved = (IF ret THEN 1 ELSE 0)
              /\ summary = saved
              /\ written = (IF ret THEN <<ZeroName>> ELSE <<>>)

\* C7 witness: a completed run on a video that reports no frame rate, one
\* frame saved.
C7_Witness ==
    /\ pc = "done"
    /\ PositiveInterval
    /\ video.fps = 0
    /\ duration_sec = 0
    /\ written = <<ZeroName>>

\* C8: with an accepted interval and an input file that exists but that the
\* backend cannot open, the process never seeks, writes or prints a summary,
\* and after the attempted open it has aborted with exit code 1.  (With
\* nothing typed for the output directory the process ends before the open.)
C8_UnopenableAborts ==
    (ValidIntervalEntered /\ input_path = "notes.txt") =>
        /\ seeks = <<>>
        /\ written = <<>>
        /\ summary = NoTotal
        /\ pc \in {"parse_interval", "check_input", "makedirs", "open",
                  "aborted", "crashed"}
        /\ pc = "crashed" => out_dir = "" /\ cap = "none"
        /\ cap \in {"none", "failed"}
        /\ cap = "failed" => /\ pc = "aborted"
                             /\ exitCode = 1
                             /\ message = "Cannot open input video."

\* C8 witness: the abort after a failed open.
C8_Witness == pc = "aborted" /\ cap = "failed" /\ input_path = "notes.txt"

\* C9: with interval > 0 the clock starts at 0 and at every seek equals the
\* number of frames saved times the interval.
C9_ClockIsSavedTimesInterval ==
    PositiveInterval =>
        /\ \A k \in DOMAIN seeks : seeks[k] = (k - 1) * interval
        /\ pc = "seek" => current_time = saved * interval

\* C10: every file name written has two-digit minutes and seconds in 0..59,
\* a three-digit millisecond field in 0..999, and encodes the clock at which
\* the frame was sampled rounded to the nearest millisecond.
C10_FileNameEncodesClock ==
    \A i \in DOMAIN written :
        LET name == written[i] IN
        /\ Len(name[1]) >= 2
        /\ Len(name[2]) = 2 /\ DigitsValue(name[2]) \in 0..59
        /\ Len(name[3]) = 2 /\ DigitsValue(name[3]) \in 0..59
        /\ Len(name[4]) = 3 /\ DigitsValue(name[4]) \in 0..999
        /\ NearestMs(EncodedMs(name), seeks[i])

====
